---- MODULE Spec2Model ----
(***************************************************************************)
(* A model of aw-notify (src/aw_notify/main.py): the TTL cache, the        *)
(* CategoryAlert threshold tracker, the notifier sink and the scheduler    *)
(* loops started by `start`.                                               *)
(*                                                                         *)
(* Time is counted in whole seconds since the epoch (datetime(1970,1,1)).  *)
(* A timedelta is a number of seconds.                                     *)
(***************************************************************************)
EXTENDS Integers, Sequences, FiniteSets, TLC

VARIABLES
    now,            \* the wall clock, datetime.now(timezone.utc)
    tracked,        \* data source: time per category in the window a query made now covers
    get_time_cache, \* cache_ttl state of get_time: last_update and cache dicts
    alerts,         \* the CategoryAlert objects
    notifier,       \* the module global `notifier`
    out,            \* notify() calls made by the last step, in order
    op,             \* the call made by the last step and how it ended
    ticks,          \* number of clock advances so far (bounds the run)
    tracked_yesterday, \* data source: time per category in the previous day's window
    afk_event,      \* data source: the latest event of the afk bucket, or None
    status_cache,   \* cache_ttl state of get_active_status
    status_seen,    \* what the latest completed query of get_active_status gave, and when
    pc,             \* where the main thread and the two daemon threads are
    idx,            \* main thread: index of the alert the for loop is at
    wake,           \* per thread: the time its current sleep() ends
    last_day,       \* new_day_thread: its local last_day
    trigger_day,    \* per alert: logical day on which max_triggered was last set
    seeded,         \* per alert: time_spent when the startup pass checked it
    observers,      \* DesktopObservable._observers: the ThresholdObserver objects, in order
    freezed         \* DesktopObservable._freezed

dataVars == <<tracked, tracked_yesterday, afk_event>>
obsVars == <<observers, freezed>>
threadVars == <<pc, idx, wake, last_day, seeded, status_cache, status_seen>>
vars == <<now, tracked, get_time_cache, alerts, notifier, out, op, ticks,
          tracked_yesterday, afk_event, status_cache, status_seen, pc, idx, wake, last_day,
          trigger_day, seeded,
          observers, freezed>>

----------------------------------------------------------------------------
(* Program constants *)

Epoch == 0
Day == 86400
Hour == 3600
TIME_OFFSET == 14400
time_offset == 14400
TTL == 60
td15min == 900
td30min == 1800
td1h == 3600
td2h == 7200
td4h == 14400
td6h == 21600
td8h == 28800

(* Bounds of the model *)

\* the first day of a run, in days since the epoch
StartDay == 20000
\* most time the data source reports for a category, in seconds
MaxTracked == 4500
\* clock advances per run of a CategoryAlert or of get_time on its own
MaxTicks == 3
\* clock advances per run of the program
MaxElapses == 2
\* most time the data source reports for a category while the program runs
MaxLoopTracked == 1800

----------------------------------------------------------------------------
(* Helpers *)

None == "None"

SeqToSet(s) == {s[i] : i \in DOMAIN s}

MinOf(S) == CHOOSE x \in S : \A y \in S : x <= y

MaxOf(S) == CHOOSE x \in S : \A y \in S : x >= y

\* dt.replace(hour=0, minute=0, second=0, microsecond=0)
Midnight(t) == t - (t % Day)

\* dict.get(key, default)
DictGet(d, k, default) == IF k \in DOMAIN d THEN d[k] ELSE default

\* d[k] = v on a dict
DictPut(d, k, v) == [x \in DOMAIN d \cup {k} |-> IF x = k THEN v ELSE d[x]]

----------------------------------------------------------------------------
(* The data source (query collaborator) *)

\* categories the data source reports time for
Categories == {"All", "Twitter", "Youtube", "Work"}

\* (now - TIME_OFFSET).date(), as a number of days since the epoch
LogicalDay(t) == (t - TIME_OFFSET) \div Day

\* start of the window get_time queries when called at time t with date=None
WindowStart(t) == Midnight(t) + time_offset

\* timeperiods of get_time called at time t with date=None: one period of a day
TimePeriods(t) == <<[start |-> WindowStart(t), end |-> WindowStart(t) + Day]>>

\* tracked time cannot exceed the time elapsed inside the window
Elapsed(t) == IF t > WindowStart(t) THEN t - WindowStart(t) ELSE 0

\* the dict get_time builds: one entry per category that has events, and "All"
CatTime(tr) == [c \in {c \in DOMAIN tr : tr[c] > 0} \cup {"All"} |-> tr[c]]

----------------------------------------------------------------------------
(* cache_ttl *)

KeyNoArgs == <<>>
KeyDateNone == << <<"date", None>> >>
KeyDateYesterday == << <<"date", "yesterday">> >>
CacheKeys == {KeyNoArgs, KeyDateNone, KeyDateYesterday}

\* the state of one wrapped function: last_update is a defaultdict
EmptyCache == [last_update |-> [k \in CacheKeys |-> Epoch], cache |-> <<>>]

\* now - last_update[cache_key] > _ttl
Expired(c, key, t) == t - c.last_update[key] > TTL

\* One call of the wrapped function at time t. res is what func would give
\* if it were invoked: [ok |-> TRUE, val |-> v], or [ok |-> FALSE] when it raises.
\* Gives the new cache state, whether func was invoked, and the outcome.
cache_ttl(c, key, t, res) ==
    IF Expired(c, key, t)
    THEN LET stamped == [c EXCEPT !.last_update[key] = t] IN
         IF res.ok
         THEN [c |-> [stamped EXCEPT !.cache = DictPut(c.cache, key, res.val)],
               queried |-> TRUE, raised |-> FALSE, val |-> res.val]
         ELSE [c |-> stamped, queried |-> TRUE, raised |-> TRUE, val |-> None]
    ELSE IF key \in DOMAIN c.cache
         THEN [c |-> c, queried |-> FALSE, raised |-> FALSE, val |-> c.cache[key]]
         ELSE [c |-> c, queried |-> FALSE, raised |-> TRUE, val |-> None]

\* what a collaborator call gives: its value, or an exception
Result(ok, v) == IF ok THEN [ok |-> TRUE, val |-> v] ELSE [ok |-> FALSE]

\* what the body of get_time gives at this moment for the current window
QueryNow(ok) == Result(ok, CatTime(tracked))

----------------------------------------------------------------------------
(* CategoryAlert *)

\* a constructor that starts last_check at a date still to come
CategoryAlert_checked_later(category, thresholds, label, positive) ==
    [category |-> category, label |-> label, thresholds |-> thresholds,
     positive |-> positive, max_triggered |-> 0, time_spent |-> 0,
     last_check |-> (StartDay + MaxTicks + 1) * Day]

CategoryAlert(category, thresholds, label, positive) ==
    [category |-> category, label |-> label, thresholds |-> thresholds,
     positive |-> positive, max_triggered |-> 0, time_spent |-> 0,
     last_check |-> Epoch]

\* the alerts threshold_alerts constructs
ConfiguredAlerts ==
    << CategoryAlert("All", <<td1h, td2h, td4h, td6h, td8h>>, "All", FALSE),
       CategoryAlert("Twitter", <<td15min, td30min, td1h>>, "Twitter", FALSE),
       CategoryAlert("Youtube", <<td15min, td30min, td1h>>, "Youtube", FALSE),
       CategoryAlert("Work", <<td15min, td30min, td1h, td2h, td4h>>, "Work", TRUE) >>

\* a threshold equal to max_triggered counted as untriggered
thresholds_untriggered_inclusive(a) ==
    SelectSeq(a.thresholds, LAMBDA t : t >= a.max_triggered)

thresholds_untriggered(a) ==
    SelectSeq(a.thresholds, LAMBDA t : t > a.max_triggered)

\* the wait computed to the largest untriggered threshold instead of the smallest
time_to_next_threshold_largest(a, t) ==
    IF thresholds_untriggered(a) = <<>>
    THEN LET day_end0 == Midnight(t)
             day_end == IF day_end0 < t THEN day_end0 + Day ELSE day_end0
             time_to_next_day == day_end - t + time_offset
         IN  time_to_next_day + MinOf(SeqToSet(a.thresholds))
    ELSE MaxOf(SeqToSet(thresholds_untriggered(a))) - a.time_spent

time_to_next_threshold(a, t) ==
    IF thresholds_untriggered(a) = <<>>
    THEN LET day_end0 == Midnight(t)
             day_end == IF day_end0 < t THEN day_end0 + Day ELSE day_end0
             time_to_next_day == day_end - t + time_offset
         IN  time_to_next_day + MinOf(SeqToSet(a.thresholds))
    ELSE MinOf(SeqToSet(thresholds_untriggered(a))) - a.time_spent

\* the refresh condition with >= for >
UpdateDue_inclusive(a, t) == t >= a.last_check + time_to_next_threshold(a, t)

\* the condition under which update() refreshes
UpdateDue(a, t) == t > a.last_check + time_to_next_threshold(a, t)

\* update(): gives the alert and the cache after the call, whether get_time was
\* called, whether that invoked the query, and whether the call raised
update(a, c, t, res) ==
    IF UpdateDue(a, t)
    THEN LET r == cache_ttl(c, KeyNoArgs, t, res) IN
         IF r.raised
         THEN [a |-> a, c |-> r.c, called |-> TRUE, queried |-> r.queried,
               raised |-> TRUE]
         ELSE [a |-> [a EXCEPT !.time_spent = DictGet(r.val, a.category, 0),
                               !.last_check = t],
               c |-> r.c, called |-> TRUE, queried |-> r.queried, raised |-> FALSE]
    ELSE [a |-> a, c |-> c, called |-> FALSE, queried |-> FALSE, raised |-> FALSE]

\* the notify() call check() makes for threshold thres
ThresholdNotification(a, thres) ==
    [kind |-> "threshold",
     title |-> IF a.positive THEN "Goal reached!" ELSE "Time spent",
     label |-> a.label, thres |-> thres, spent |-> a.time_spent]

\* untriggered thresholds that time_spent has reached
Reached(a) == {th \in SeqToSet(thresholds_untriggered(a)) : th <= a.time_spent}

\* check(silent) that notifies even when silent
check_ignoring_silent(a, silent) ==
    IF Reached(a) = {}
    THEN [a |-> a, calls |-> <<>>]
    ELSE LET thres == MaxOf(Reached(a)) IN
         [a |-> [a EXCEPT !.max_triggered = thres],
          calls |-> <<ThresholdNotification(a, thres)>>]

\* check(silent) scanning the thresholds in ascending order
check_ascending(a, silent) ==
    IF Reached(a) = {}
    THEN [a |-> a, calls |-> <<>>]
    ELSE LET thres == MinOf(Reached(a)) IN
         [a |-> [a EXCEPT !.max_triggered = thres],
          calls |-> IF silent THEN <<>> ELSE <<ThresholdNotification(a, thres)>>]

\* check(silent): the loop over sorted(thresholds_untriggered, reverse=True)
\* stops at the first threshold <= time_spent, which is the largest such.
check(a, silent) ==
    IF Reached(a) = {}
    THEN [a |-> a, calls |-> <<>>]
    ELSE LET thres == MaxOf(Reached(a)) IN
         [a |-> [a EXCEPT !.max_triggered = thres],
          calls |-> IF silent THEN <<>> ELSE <<ThresholdNotification(a, thres)>>]

\* notify(): the global notifier is created on first use
notify(n) == IF n = None THEN "DesktopNotifier" ELSE n

----------------------------------------------------------------------------
(* send_checkin and get_active_status *)

\* the categories send_checkin lists: "All", "Uncategorized" and CATEGORIES
CheckinCategories == {"All", "Uncategorized", "Work", "Twitter", "Youtube"}

\* categories with t > 0.02 * cat_time["All"]
TopCategories(cat_time) ==
    {c \in CheckinCategories : 50 * DictGet(cat_time, c, 0) > cat_time["All"]}

\* send_checkin(title, date): key is the cache key of get_time(date=date), res
\* what the query would give. Gives the cache after the call, the notify()
\* calls made and whether get_time raised.
send_checkin(title, key, c, t, res) ==
    LET r == cache_ttl(c, key, t, res) IN
    IF r.raised
    THEN [c |-> r.c, calls |-> <<>>, raised |-> TRUE]
    ELSE [c |-> r.c, raised |-> FALSE,
          calls |-> IF TopCategories(r.val) # {}
                    THEN <<[kind |-> "checkin", title |-> title,
                            top |-> TopCategories(r.val)]>>
                    ELSE <<>>]

StaleAfter == 300

\* get_active_status without the test for an event that is too old
ActiveStatus_any_age(events, t) ==
    IF events = <<>> THEN None
    ELSE IF events[1].status = "not-afk" THEN "True" ELSE "False"

\* the body of get_activity_status on the events aw.get_events returned:
\* "True", "False" or "None" for Python's True, False and None
ActiveStatus(events, t) ==
    IF events = <<>> THEN None
    ELSE IF events[1].end < t - StaleAfter THEN None
    ELSE IF events[1].status = "not-afk" THEN "True" ELSE "False"

\* get_active_status(): the cached call
get_active_status(c, t, events, ok) ==
    cache_ttl(c, KeyNoArgs, t, Result(ok, ActiveStatus(events, t)))

\* the record of the latest completed query after a call that ended as r at t
Seen(seen, r, t) ==
    IF r.queried /\ ~r.raised THEN <<[val |-> r.val, at |-> t]>> ELSE seen

\* the check-in going ahead unless the user is known to be afk
CheckinAllowed_unless_afk(active) == active # "False"

\* hourly check-in goes ahead: neither `active is None` nor `not active`
CheckinAllowed(active) == active # None /\ active = "True"

----------------------------------------------------------------------------
(* The environment: the clock and the data source *)

\* times of day at which a run starts
StartTimes == {3600, 36000, 85800}

\* time the data source may add to a category between two steps
Bursts == {900, 2700}

Threads == {"main", "hourly", "new_day"}

AlertCats == {alerts[i].category : i \in DOMAIN alerts}

\* activity is recorded in the categories that have an alert; "All" is their sum
LeafCats == IF AlertCats = {"All"} THEN AlertCats ELSE AlertCats \ {"All"}

NoTime == [c \in Categories |-> 0]

\* time passes; at midnight the windows get_time queries move on by a day
Tick(d) ==
    /\ ticks < MaxTicks
    /\ pc["main"] # "crashed"
    /\ ticks' = ticks + 1
    /\ now' = now + d
    /\ IF Midnight(now + d) # Midnight(now)
       THEN tracked' = NoTime /\ tracked_yesterday' = tracked
       ELSE UNCHANGED <<tracked, tracked_yesterday>>
    /\ out' = <<>>
    /\ op' = [name |-> "tick"]
    /\ UNCHANGED <<get_time_cache, alerts, notifier, afk_event, trigger_day>>
    /\ UNCHANGED threadVars
    /\ UNCHANGED obsVars

\* the data source records d more seconds of activity in category c, up to a
\* total of most
Activity(c, d, most) ==
    /\ pc["main"] # "crashed"
    /\ tracked["All"] + d <= Elapsed(now)
    /\ tracked["All"] + d <= most
    /\ tracked' = [x \in Categories |->
                     IF x = c \/ x = "All" THEN tracked[x] + d ELSE tracked[x]]
    /\ out' = <<>>
    /\ op' = [name |-> "activity"]
    /\ UNCHANGED <<now, get_time_cache, alerts, notifier, ticks, tracked_yesterday,
                   afk_event, trigger_day>>
    /\ UNCHANGED threadVars
    /\ UNCHANGED obsVars

\* no thread has been started
NoThreads ==
    /\ pc = [t \in Threads |-> "none"]
    /\ idx = 0
    /\ wake = [t \in Threads |-> Epoch]
    /\ last_day = 0
    /\ seeded = <<>>
    /\ status_cache = EmptyCache
    /\ observers = <<>>
    /\ freezed = FALSE
    /\ status_seen = <<>>

InitEnv ==
    /\ now \in {StartDay * Day + s : s \in StartTimes}
    /\ get_time_cache = EmptyCache
    /\ notifier = None
    /\ out = <<>>
    /\ op = [name |-> "init"]
    /\ ticks = 0

----------------------------------------------------------------------------
(* CategoryAlert driven by arbitrary update()/check() calls *)

\* how far the clock may advance between two calls
AlertSteps == {10, 900}

InitAlert ==
    /\ InitEnv
    /\ tracked = NoTime
    /\ afk_event = <<>>
    /\ tracked_yesterday = NoTime
    /\ \E i \in DOMAIN ConfiguredAlerts : alerts = <<ConfiguredAlerts[i]>>
    /\ trigger_day = <<0>>
    /\ NoThreads

\* alerts[i].update()
AlertUpdate(i, ok) ==
    LET r == update(alerts[i], get_time_cache, now, QueryNow(ok)) IN
    /\ alerts' = [alerts EXCEPT ![i] = r.a]
    /\ get_time_cache' = r.c
    /\ out' = <<>>
    /\ op' = [name |-> "update", i |-> i, called |-> r.called,
              queried |-> r.queried, raised |-> r.raised]
    /\ UNCHANGED <<now, notifier, ticks, trigger_day>>
    /\ UNCHANGED dataVars
    /\ UNCHANGED threadVars
    /\ UNCHANGED obsVars

\* alerts[i].check(silent); ok is whether the notifier delivers
AlertCheck(i, silent, ok) ==
    LET r == check(alerts[i], silent) IN
    /\ alerts' = [alerts EXCEPT ![i] = r.a]
    /\ trigger_day' = IF r.a.max_triggered # alerts[i].max_triggered
                      THEN [trigger_day EXCEPT ![i] = LogicalDay(now)]
                      ELSE trigger_day
    /\ out' = r.calls
    /\ notifier' = IF r.calls # <<>> THEN notify(notifier) ELSE notifier
    /\ op' = [name |-> "check", i |-> i, silent |-> silent,
              raised |-> (r.calls # <<>> /\ ~ok)]
    /\ UNCHANGED <<now, get_time_cache, ticks>>
    /\ UNCHANGED dataVars
    /\ UNCHANGED threadVars
    /\ UNCHANGED obsVars

NextAlert ==
    \/ \E d \in AlertSteps : Tick(d)
    \/ \E c \in LeafCats, d \in Bursts : Activity(c, d, MaxTracked)
    \/ \E i \in DOMAIN alerts, ok \in BOOLEAN : AlertUpdate(i, ok)
    \/ \E i \in DOMAIN alerts, silent \in BOOLEAN, ok \in BOOLEAN : AlertCheck(i, silent, ok)

SpecAlert == InitAlert /\ [][NextAlert]_vars

----------------------------------------------------------------------------
(* get_time called directly, with and without the date keyword *)

\* how far the clock may advance between two calls
CacheSteps == {1, 60}

InitCache ==
    /\ InitEnv
    /\ tracked = NoTime
    /\ afk_event = <<>>
    /\ tracked_yesterday = NoTime
    /\ alerts = <<>>
    /\ trigger_day = <<>>
    /\ NoThreads

\* get_time() (key = KeyNoArgs) or get_time(date=None) (key = KeyDateNone)
GetTimeCall(key, ok) ==
    LET r == cache_ttl(get_time_cache, key, now, QueryNow(ok)) IN
    /\ get_time_cache' = r.c
    /\ out' = <<>>
    /\ op' = [name |-> "get_time", key |-> key, queried |-> r.queried,
              raised |-> r.raised, val |-> r.val,
              timeperiods |-> IF r.queried THEN TimePeriods(now) ELSE <<>>]
    /\ UNCHANGED <<now, alerts, notifier, ticks, trigger_day>>
    /\ UNCHANGED dataVars
    /\ UNCHANGED threadVars
    /\ UNCHANGED obsVars

NextCache ==
    \/ \E d \in CacheSteps : Tick(d)
    \/ \E d \in Bursts : Activity("Twitter", d, MaxTracked)
    \/ \E key \in {KeyNoArgs, KeyDateNone}, ok \in BOOLEAN : GetTimeCall(key, ok)

SpecCache == InitCache /\ [][NextCache]_vars

----------------------------------------------------------------------------
(* get_active_status called directly *)

\* how far the clock may advance between two calls
StatusSteps == {30, 60, 300}

InitStatus ==
    /\ InitEnv
    /\ tracked = NoTime
    /\ afk_event = <<>>
    /\ tracked_yesterday = NoTime
    /\ alerts = <<>>
    /\ trigger_day = <<>>
    /\ NoThreads

\* the afk watcher records a heartbeat of status hb that ends now
Heartbeat(hb) ==
    /\ afk_event' = <<[end |-> now, status |-> hb]>>
    /\ out' = <<>>
    /\ op' = [name |-> "heartbeat"]
    /\ UNCHANGED <<now, tracked, tracked_yesterday, get_time_cache, alerts,
                   notifier, ticks, trigger_day>>
    /\ UNCHANGED threadVars
    /\ UNCHANGED obsVars

\* get_active_status(); ok is whether aw.get_info and aw.get_events succeed
StatusCall(ok) ==
    LET r == get_active_status(status_cache, now, afk_event, ok) IN
    /\ status_cache' = r.c
    /\ UNCHANGED obsVars
    /\ status_seen' = Seen(status_seen, r, now)
    /\ out' = <<>>
    /\ op' = [name |-> "get_active_status", queried |-> r.queried,
              raised |-> r.raised, val |-> r.val]
    /\ UNCHANGED <<now, get_time_cache, alerts, notifier, ticks, trigger_day,
                   pc, idx, wake, last_day, seeded>>
    /\ UNCHANGED dataVars

NextStatus ==
    \/ \E d \in StatusSteps : Tick(d)
    \/ \E hb \in {"not-afk", "afk"} : Heartbeat(hb)
    \/ \E ok \in BOOLEAN : StatusCall(ok)

SpecStatus == InitStatus /\ [][NextStatus]_vars

----------------------------------------------------------------------------
(* The program: start() and the three scheduler loops *)

\* how long a sleep() may last beyond its argument: sleep(s) returns once at
\* least s seconds have passed, and the clock moves in these steps
LoopSteps == {60, 18000}

\* times of day at which the program is started
LoopStarts == {85800}

\* time the data source has recorded for Twitter when the program is started
LaunchTimes == {0, 1800}

\* time the data source adds to a category while the threads sleep
LoopBursts == {0, 900}

\* sleep(10) at the end of a pass of threshold_alerts
LoopSleep == 10
\* sleep(60) in new_day_thread
NewDaySleep == 60

\* alerts of threshold_alerts that the model runs
NumAlerts == 2

\* next_hour in checkin_thread
NextHour(t) == t - (t % Hour) + Hour

\* start_of_tomorrow in new_day_thread
StartOfTomorrow(t) == Midnight(t + Day)

\* An uncaught exception ends the thread it is raised in. The two loops other
\* than the main thread's are daemon threads: when the main thread ends, the
\* process exits and they stop where they are.
Crashed(t) ==
    IF t = "main"
    THEN [u \in Threads |->
            IF u = "main" THEN "crashed"
            ELSE IF pc[u] \in {"none", "crashed"} THEN pc[u] ELSE "exited"]
    ELSE [pc EXCEPT ![t] = "crashed"]

\* c has d more seconds of activity than in tr, and so has "All"
Grown(tr, c, d) ==
    [x \in Categories |-> IF x = c \/ x = "All" THEN tr[x] + d ELSE tr[x]]

\* thread t has something to do now: it is not blocked in a sleep()
Runnable(t) ==
    \/ pc[t] \in {"checkin", "checkin_yesterday", "start_threads", "seed", "loop"}
    \/ pc[t] = "sleep" /\ now >= wake[t]

\* Time passes while every thread sleeps: the clock advances by d, the data
\* source records grow more seconds of activity in category c, and the afk
\* watcher records a heartbeat of status hb ("none": no heartbeat).
Elapse(d, c, grow, hb) ==
    /\ ticks < MaxElapses
    /\ pc["main"] # "crashed"
    /\ \A t \in Threads : ~Runnable(t)
    /\ ticks' = ticks + 1
    /\ now' = now + d
    /\ LET base == IF Midnight(now + d) # Midnight(now) THEN NoTime ELSE tracked IN
       /\ base["All"] + grow <= Elapsed(now + d)
       /\ base["All"] + grow <= MaxLoopTracked
       /\ tracked' = Grown(base, c, grow)
    /\ tracked_yesterday' = IF Midnight(now + d) # Midnight(now) THEN tracked
                            ELSE tracked_yesterday
    /\ afk_event' = IF hb = "none" THEN afk_event
                    ELSE <<[end |-> now + d, status |-> hb]>>
    /\ out' = <<>>
    /\ op' = [name |-> "elapse"]
    /\ UNCHANGED <<get_time_cache, alerts, notifier, trigger_day>>
    /\ UNCHANGED threadVars
    /\ UNCHANGED obsVars

Init ==
    /\ InitEnv
    /\ now \in {StartDay * Day + s : s \in LoopStarts}
    /\ tracked \in {Grown(NoTime, "Twitter", g) : g \in LaunchTimes}
    /\ afk_event = <<>>
    /\ tracked_yesterday = [NoTime EXCEPT !["All"] = td1h]
    /\ alerts = SubSeq(ConfiguredAlerts, 1, NumAlerts)
    /\ trigger_day = [i \in 1..NumAlerts |-> 0]
    /\ pc = [t \in Threads |-> IF t = "main" THEN "checkin" ELSE "none"]
    /\ idx = 0
    /\ wake = [t \in Threads |-> Epoch]
    /\ last_day = 0
    /\ seeded = <<>>
    /\ status_cache = EmptyCache
    /\ observers = <<>>
    /\ freezed = FALSE
    /\ status_seen = <<>>

\* start(): send_checkin()
MainCheckin(okq, okn) ==
    /\ pc["main"] = "checkin"
    /\ LET r == send_checkin("Time today", KeyDateNone, get_time_cache, now, QueryNow(okq))
           failed == r.raised \/ (r.calls # <<>> /\ ~okn)
       IN  /\ get_time_cache' = r.c
           /\ out' = r.calls
           /\ notifier' = IF r.calls # <<>> THEN notify(notifier) ELSE notifier
           /\ pc' = IF failed THEN Crashed("main")
                    ELSE [pc EXCEPT !["main"] = "checkin_yesterday"]
           /\ op' = [name |-> "checkin", error |-> failed]
    /\ UNCHANGED <<now, alerts, ticks, trigger_day, idx, wake, last_day, seeded,
                   status_cache, status_seen, observers, freezed>>
    /\ UNCHANGED dataVars

\* start(): send_checkin_yesterday()
MainCheckinYesterday(okq, okn) ==
    /\ pc["main"] = "checkin_yesterday"
    /\ LET r == send_checkin("Time yesterday", KeyDateYesterday, get_time_cache, now,
                             Result(okq, CatTime(tracked_yesterday)))
           failed == r.raised \/ (r.calls # <<>> /\ ~okn)
       IN  /\ get_time_cache' = r.c
           /\ out' = r.calls
           /\ notifier' = IF r.calls # <<>> THEN notify(notifier) ELSE notifier
           /\ pc' = IF failed THEN Crashed("main")
                    ELSE [pc EXCEPT !["main"] = "start_threads"]
           /\ op' = [name |-> "checkin_yesterday", error |-> failed]
    /\ UNCHANGED <<now, alerts, ticks, trigger_day, idx, wake, last_day, seeded,
                   status_cache, status_seen, observers, freezed>>
    /\ UNCHANGED dataVars

\* start(): start_hourly() and start_new_day() start the two daemon threads.
\* checkin_thread computes next_hour and sleeps until then; new_day_thread sets
\* last_day and enters its loop. threshold_alerts() then builds the alerts and
\* begins its first pass.
StartThreads ==
    /\ pc["main"] = "start_threads"
    /\ pc' = [main |-> "seed", hourly |-> "sleep", new_day |-> "sleep"]
    /\ wake' = [main |-> wake["main"], hourly |-> NextHour(now), new_day |-> now]
    /\ last_day' = LogicalDay(now)
    /\ idx' = 1
    /\ out' = <<>>
    /\ op' = [name |-> "start_threads"]
    /\ UNCHANGED <<now, get_time_cache, alerts, notifier, ticks, trigger_day,
                   seeded, status_cache, status_seen, observers, freezed>>
    /\ UNCHANGED dataVars

\* threshold_alerts(), first pass: alert.update(); alert.check(silent=True)
SeedAlert(okq) ==
    /\ pc["main"] = "seed"
    /\ LET u == update(alerts[idx], get_time_cache, now, QueryNow(okq))
           k == check(u.a, TRUE)
       IN  /\ get_time_cache' = u.c
           /\ alerts' = [alerts EXCEPT ![idx] = IF u.raised THEN u.a ELSE k.a]
           /\ trigger_day' = IF ~u.raised /\ k.a.max_triggered # alerts[idx].max_triggered
                             THEN [trigger_day EXCEPT ![idx] = LogicalDay(now)]
                             ELSE trigger_day
           /\ out' = IF u.raised THEN <<>> ELSE k.calls
           /\ notifier' = IF ~u.raised /\ k.calls # <<>> THEN notify(notifier)
                          ELSE notifier
           /\ seeded' = IF u.raised THEN seeded ELSE Append(seeded, u.a.time_spent)
           /\ IF u.raised
              THEN pc' = Crashed("main") /\ idx' = idx
              ELSE IF idx < Len(alerts)
                   THEN idx' = idx + 1 /\ pc' = pc
                   ELSE idx' = 1 /\ pc' = [pc EXCEPT !["main"] = "loop"]
           /\ op' = [name |-> "seed", i |-> idx, error |-> u.raised]
    /\ UNCHANGED <<now, ticks, wake, last_day, status_cache, status_seen, observers, freezed>>
    /\ UNCHANGED dataVars

\* threshold_alerts(), while True: alert.update(); alert.check() for the alert
\* the for loop is at; after the last alert, sleep(10). The pass over the
\* alerts begins when the sleep(10) of the pass before has returned.
LoopAlert(okq, okn) ==
    /\ pc["main"] \in {"loop", "sleep"}
    /\ Runnable("main")
    /\ LET u == update(alerts[idx], get_time_cache, now, QueryNow(okq))
           k == check(u.a, FALSE)
           failed == u.raised \/ (k.calls # <<>> /\ ~okn)
       IN  /\ get_time_cache' = u.c
           /\ alerts' = [alerts EXCEPT ![idx] = IF u.raised THEN u.a ELSE k.a]
           /\ trigger_day' = IF ~u.raised /\ k.a.max_triggered # alerts[idx].max_triggered
                             THEN [trigger_day EXCEPT ![idx] = LogicalDay(now)]
                             ELSE trigger_day
           /\ out' = IF u.raised THEN <<>> ELSE k.calls
           /\ notifier' = IF ~u.raised /\ k.calls # <<>> THEN notify(notifier)
                          ELSE notifier
           /\ IF failed
              THEN pc' = Crashed("main") /\ UNCHANGED <<idx, wake>>
              ELSE IF idx < Len(alerts)
                   THEN /\ idx' = idx + 1
                        /\ pc' = [pc EXCEPT !["main"] = "loop"]
                        /\ wake' = wake
                   ELSE /\ idx' = 1
                        /\ pc' = [pc EXCEPT !["main"] = "sleep"]
                        /\ wake' = [wake EXCEPT !["main"] = now + LoopSleep]
           /\ op' = [name |-> "loop_alert", i |-> idx, error |-> failed]
    /\ UNCHANGED <<now, ticks, last_day, seeded, status_cache, status_seen, observers, freezed>>
    /\ UNCHANGED dataVars

\* checkin_thread, one pass of its loop once the sleep until next_hour has
\* returned: get_active_status() inside try/except, the `continue`s, then
\* send_checkin(); then next_hour is computed again and the thread sleeps
HourlyCheckin(oks, okq, okn) ==
    /\ pc["hourly"] = "sleep"
    /\ Runnable("hourly")
    /\ LET st == get_active_status(status_cache, now, afk_event, oks) IN
       /\ status_cache' = st.c
       /\ UNCHANGED obsVars
       /\ status_seen' = Seen(status_seen, st, now)
       /\ IF ~st.raised /\ CheckinAllowed(st.val)
          THEN LET r == send_checkin("Time today", KeyDateNone, get_time_cache, now,
                                     QueryNow(okq))
                   failed == r.raised \/ (r.calls # <<>> /\ ~okn)
               IN  /\ get_time_cache' = r.c
                   /\ out' = r.calls
                   /\ notifier' = IF r.calls # <<>> THEN notify(notifier) ELSE notifier
                   /\ pc' = IF failed THEN Crashed("hourly") ELSE pc
                   /\ wake' = IF failed THEN wake
                              ELSE [wake EXCEPT !["hourly"] = NextHour(now)]
                   /\ op' = [name |-> "hourly", status |-> st.val, error |-> failed]
          ELSE /\ out' = <<>>
               /\ pc' = pc
               /\ wake' = [wake EXCEPT !["hourly"] = NextHour(now)]
               /\ op' = [name |-> "hourly",
                         status |-> IF st.raised THEN "raised" ELSE st.val,
                         error |-> st.raised]
               /\ UNCHANGED <<get_time_cache, notifier>>
    /\ UNCHANGED <<now, alerts, ticks, trigger_day, idx, last_day, seeded>>
    /\ UNCHANGED dataVars

\* the new-day notification going out unless the user is known to be afk
NewDaySends_unless_afk(st) == ~st.raised /\ st.val # "False"

\* new_day_thread: `if active:` on what get_active_status() returned
NewDaySends(st) == ~st.raised /\ st.val = "True"

\* new_day_thread, one pass of its loop: if the logical day differs from
\* last_day, get_active_status() and, if active, notify() and last_day = day;
\* otherwise sleep until start_of_tomorrow. Either way sleep(60) follows.
NewDayLoop(oks, okn) ==
    /\ pc["new_day"] = "sleep"
    /\ Runnable("new_day")
    /\ LET day == LogicalDay(now) IN
       IF day # last_day
       THEN LET st == get_active_status(status_cache, now, afk_event, oks)
                sends == NewDaySends(st)
                failed == st.raised \/ (sends /\ ~okn)
            IN  /\ status_cache' = st.c
                /\ UNCHANGED obsVars
                /\ status_seen' = Seen(status_seen, st, now)
                /\ out' = IF sends
                          THEN <<[kind |-> "new_day", title |-> "New day", day |-> day]>>
                          ELSE <<>>
                /\ notifier' = IF sends THEN notify(notifier) ELSE notifier
                /\ last_day' = IF sends /\ okn THEN day ELSE last_day
                /\ pc' = IF failed THEN Crashed("new_day") ELSE pc
                /\ wake' = IF failed THEN wake
                           ELSE [wake EXCEPT !["new_day"] = now + NewDaySleep]
                /\ op' = [name |-> "new_day", differs |-> TRUE,
                          status |-> IF st.raised THEN "raised" ELSE st.val,
                          error |-> failed]
       ELSE /\ pc' = pc
            /\ wake' = [wake EXCEPT !["new_day"] = StartOfTomorrow(now) + NewDaySleep]
            /\ out' = <<>>
            /\ op' = [name |-> "new_day", differs |-> FALSE, status |-> None,
                      error |-> FALSE]
            /\ UNCHANGED <<status_cache, status_seen, observers, freezed, notifier, last_day>>
    /\ UNCHANGED <<now, get_time_cache, alerts, ticks, trigger_day, idx, seeded>>
    /\ UNCHANGED dataVars

Next ==
    \/ \E d \in LoopSteps, c \in LeafCats, grow \in LoopBursts,
          hb \in {"none", "not-afk", "afk"} : Elapse(d, c, grow, hb)
    \/ \E okq \in BOOLEAN, okn \in BOOLEAN : MainCheckin(okq, okn)
    \/ \E okq \in BOOLEAN, okn \in BOOLEAN : MainCheckinYesterday(okq, okn)
    \/ StartThreads
    \/ \E okq \in BOOLEAN : SeedAlert(okq)
    \/ \E okq \in BOOLEAN, okn \in BOOLEAN : LoopAlert(okq, okn)
    \/ \E oks \in BOOLEAN, okq \in BOOLEAN, okn \in BOOLEAN : HourlyCheckin(oks, okq, okn)
    \/ \E oks \in BOOLEAN, okn \in BOOLEAN : NewDayLoop(oks, okn)

Spec == Init /\ [][Next]_vars

----------------------------------------------------------------------------
(* threshold_alerts() on its own, no collaborator failing, fairly scheduled *)

\* how long the sleep(10) of the loop may last
LiveSteps == {60, 900, 1800}

\* time of day at which threshold_alerts() is called
LiveStarts == {36000}

\* threshold_alerts() has built its alerts and begins its first pass
InitLive ==
    /\ InitEnv
    /\ now \in {StartDay * Day + s : s \in LiveStarts}
    /\ tracked \in {Grown(NoTime, "Twitter", g) : g \in LaunchTimes}
    /\ afk_event = <<>>
    /\ tracked_yesterday = NoTime
    /\ alerts = SubSeq(ConfiguredAlerts, 1, NumAlerts)
    /\ trigger_day = [i \in 1..NumAlerts |-> 0]
    /\ pc = [t \in Threads |-> IF t = "main" THEN "seed" ELSE "none"]
    /\ idx = 1
    /\ wake = [t \in Threads |-> Epoch]
    /\ last_day = 0
    /\ seeded = <<>>
    /\ status_cache = EmptyCache
    /\ observers = <<>>
    /\ freezed = FALSE
    /\ status_seen = <<>>

NextLive ==
    \/ \E d \in LiveSteps, c \in LeafCats, grow \in LoopBursts : Elapse(d, c, grow, "none")
    \/ SeedAlert(TRUE)
    \/ LoopAlert(TRUE, TRUE)

\* the main thread gets to run whenever it is not asleep, and time passes
SpecLive == InitLive /\ [][NextLive]_vars /\ WF_vars(NextLive)

----------------------------------------------------------------------------
(* new_day_thread on its own, every sleep() returning exactly on time *)

\* the threads that are blocked in a sleep()
Sleeping == {t \in Threads : pc[t] = "sleep"}

\* Every thread sleeps and the earliest sleep() returns on time: the clock
\* advances to the earliest wake-up time; meanwhile the afk watcher has
\* recorded a heartbeat of status hb ("none": no heartbeat).
SleepUntilWake(hb) ==
    /\ ticks < MaxTicks
    /\ Sleeping # {}
    /\ \A t \in Threads : ~Runnable(t)
    /\ ticks' = ticks + 1
    /\ now' = MinOf({wake[t] : t \in Sleeping})
    /\ afk_event' = IF hb = "none" THEN afk_event
                    ELSE <<[end |-> now', status |-> hb]>>
    /\ out' = <<>>
    /\ op' = [name |-> "sleep"]
    /\ UNCHANGED <<tracked, tracked_yesterday, get_time_cache, alerts, notifier,
                   trigger_day>>
    /\ UNCHANGED threadVars
    /\ UNCHANGED obsVars

\* start_new_day() has started new_day_thread, which has set last_day
InitNewDay ==
    /\ InitEnv
    /\ tracked = NoTime
    /\ tracked_yesterday = NoTime
    /\ afk_event \in {<<>>, <<[end |-> now, status |-> "not-afk"]>>}
    /\ alerts = <<>>
    /\ trigger_day = <<>>
    /\ pc = [t \in Threads |-> IF t = "new_day" THEN "sleep" ELSE "none"]
    /\ idx = 0
    /\ wake = [t \in Threads |-> IF t = "new_day" THEN now ELSE Epoch]
    /\ last_day = LogicalDay(now)
    /\ seeded = <<>>
    /\ status_cache = EmptyCache
    /\ observers = <<>>
    /\ freezed = FALSE
    /\ status_seen = <<>>

NextNewDay ==
    \/ \E hb \in {"none", "not-afk", "afk"} : SleepUntilWake(hb)
    \/ \E oks \in BOOLEAN, okn \in BOOLEAN : NewDayLoop(oks, okn)

SpecNewDay == InitNewDay /\ [][NextNewDay]_vars

----------------------------------------------------------------------------
(* parse_category_toml. A table (a dict) is the sequence of its items in    *)
(* order, each [key, val]; a value is a string or a table.                  *)

Str(x) == [t |-> "str", s |-> x, items |-> <<>>]
Tab(items) == [t |-> "tab", s |-> "", items |-> items]
Item(k, v) == [key |-> k, val |-> v]

\* keys of the documents that are parsed, and their order as Python strings
\* ("$" < "A" < "B" < "G" < "M" < "S" < "c")
KeyRank == [x \in {"$re", "A", "B", "Games", "Media", "Music", "Steam", "categories"} |->
              CASE x = "$re" -> 1 [] x = "A" -> 2 [] x = "B" -> 3 [] x = "Games" -> 4
                [] x = "Media" -> 5 [] x = "Music" -> 6 [] x = "Steam" -> 7
                [] OTHER -> 8]

\* p < q for two lists of strings, as Python compares lists
PathLess(p, q) ==
    LET n == IF Len(p) < Len(q) THEN Len(p) ELSE Len(q)
        diff == {i \in 1..n : p[i] # q[i]}
    IN  IF diff = {} THEN Len(p) < Len(q)
        ELSE KeyRank[p[MinOf(diff)]] < KeyRank[q[MinOf(diff)]]

\* sorted(categories): by path; two entries with the same path make the sort
\* compare their dicts, which raises TypeError
RECURSIVE SortedCats(_)
SortedCats(S) ==
    IF S = {} THEN <<>>
    ELSE LET m == CHOOSE x \in S : \A y \in S \ {x} : PathLess(x.path, y.path)
         IN  <<m>> \o SortedCats(S \ {m})

sorted(cats) ==
    IF \E i, j \in DOMAIN cats : i # j /\ cats[i].path = cats[j].path
    THEN [raised |-> TRUE, cats |-> <<>>]
    ELSE [raised |-> FALSE, cats |-> SortedCats(SeqToSet(cats))]

RegexRule(path, re) == [path |-> path, type |-> "regex", regex |-> re]
NoRule(path) == [path |-> path, type |-> "none", regex |-> None]

HasKey(items, k) == \E i \in DOMAIN items : items[i].key = k
ValueOf(items, k) == items[CHOOSE i \in DOMAIN items : items[i].key = k].val

\* parse_category_toml(toml, parent): [raised, cats]. `toml = toml["categories"]`
\* is done at every level; toml.items() of a string raises AttributeError.
RECURSIVE parse_category_toml(_, _)
RECURSIVE ParseItems(_, _, _)
\* the for loop over toml.items() from item i on
ParseItems(items, i, parent) ==
    IF i > Len(items) THEN [raised |-> FALSE, cats |-> <<>>]
    ELSE LET it == items[i]
             here == IF it.val.t = "tab"
                     THEN parse_category_toml(it.val, Append(parent, it.key))
                     ELSE [raised |-> FALSE,
                           cats |-> IF it.key = "$re"
                                    THEN <<RegexRule(parent, it.val.s)>>
                                    ELSE <<RegexRule(Append(parent, it.key), it.val.s)>>]
             rest == ParseItems(items, i + 1, parent)
         IN  IF here.raised \/ rest.raised THEN [raised |-> TRUE, cats |-> <<>>]
             ELSE [raised |-> FALSE, cats |-> here.cats \o rest.cats]

parse_category_toml(toml, parent) ==
    LET t == IF HasKey(toml.items, "categories")
             THEN ValueOf(toml.items, "categories") ELSE toml
    IN  IF t.t # "tab" THEN [raised |-> TRUE, cats |-> <<>>]
        ELSE LET r == ParseItems(t.items, 1, parent)
                 cats == IF parent # <<>> /\ \A i \in DOMAIN r.cats : r.cats[i].path # parent
                         THEN Append(r.cats, NoRule(parent)) ELSE r.cats
             IN  IF r.raised THEN r ELSE sorted(cats)

\* names of categories in the documents that are parsed
DocKeys == {"$re", "A", "B", "categories"}

\* the tables of at most two items with keys in DocKeys and values in V
TablesOver(V) ==
    {<<>>} \cup {<<Item(k, v)>> : k \in DocKeys, v \in V}
           \cup {<<Item(k[1], v), Item(k[2], w)>> :
                    k \in {x \in DocKeys \X DocKeys : x[1] # x[2]}, v \in V, w \in V}

Flat == TablesOver({Str("r2")})
Nested == TablesOver({Str("r1")} \cup {Tab(x) : x \in Flat})
Deep == {<<Item(k, Tab(<<Item(j, Tab(x))>>))>> : k \in DocKeys, j \in DocKeys, x \in Flat}

\* the document of test_parse_category_toml, without its [categories] wrapper
TestDoc ==
    <<Item("Media", Tab(<<Item("Music", Str("r1")),
                          Item("Games", Tab(<<Item("$re", Str("Video Games")),
                                              Item("Steam", Str("Steam"))>>))>>))>>

\* the category documents that are parsed: no category at the top level is
\* named "categories"
Docs ==
    {d \in Nested \cup Deep : ~HasKey(d, "categories")} \cup {TestDoc}

InitToml == InitCache

\* parse_category_toml(toml, parent=[]) of a document, given with or without
\* the [categories] table that wraps a category file
ParseToml(doc, wrapped) ==
    /\ op.name = "init"
    /\ op' = [name |-> "parse_category_toml", doc |-> doc, wrapped |-> wrapped,
              res |-> parse_category_toml(
                         IF wrapped THEN Tab(<<Item("categories", Tab(doc))>>)
                         ELSE Tab(doc), <<>>)]
    /\ out' = <<>>
    /\ UNCHANGED <<now, get_time_cache, alerts, notifier, ticks, trigger_day>>
    /\ UNCHANGED dataVars
    /\ UNCHANGED threadVars
    /\ UNCHANGED obsVars

NextToml == \E doc \in Docs, wrapped \in BOOLEAN : ParseToml(doc, wrapped)

SpecToml == InitToml /\ [][NextToml]_vars

----------------------------------------------------------------------------
(* to_hms: a formatted duration is the sequence of its parts, each a number *)
(* with its unit letter; the string joins the parts with single spaces      *)

\* to_hms that appends the seconds whenever they are not zero
to_hms_with_seconds(duration) ==
    LET days == duration \div Day
        hours == (duration % Day) \div 3600
        remainder == (duration % Day) % 3600
        minutes == remainder \div 60
        seconds == remainder % 60
        s1 == IF days > 0 THEN << <<days, "d">> >> ELSE <<>>
        s2 == IF hours > 0 THEN Append(s1, <<hours, "h">>) ELSE s1
        s3 == IF minutes > 0 THEN Append(s2, <<minutes, "m">>) ELSE s2
    IN  IF seconds > 0 \/ Len(s3) = 0 THEN Append(s3, <<seconds, "s">>) ELSE s3

\* to_hms of main.py; duration.days and duration.seconds split the duration
to_hms(duration) ==
    LET days == duration \div Day
        hours == (duration % Day) \div 3600
        remainder == (duration % Day) % 3600
        minutes == remainder \div 60
        seconds == remainder % 60
        s1 == IF days > 0 THEN << <<days, "d">> >> ELSE <<>>
        s2 == IF hours > 0 THEN Append(s1, <<hours, "h">>) ELSE s1
        s3 == IF minutes > 0 THEN Append(s2, <<minutes, "m">>) ELSE s2
    IN  IF Len(s3) = 0 THEN Append(s3, <<seconds, "s">>) ELSE s3

\* to_hms of utils.py: no days part
utils_to_hms(duration) ==
    LET hours == (duration % Day) \div 3600
        remainder == (duration % Day) % 3600
        minutes == remainder \div 60
        seconds == remainder % 60
        s2 == IF hours > 0 THEN << <<hours, "h">> >> ELSE <<>>
        s3 == IF minutes > 0 THEN Append(s2, <<minutes, "m">>) ELSE s2
    IN  IF Len(s3) = 0 THEN Append(s3, <<seconds, "s">>) ELSE s3

\* most whole days in a duration that is formatted
MaxDays == 2

\* the durations that are formatted
Durations ==
    {d * Day + h * Hour + m * 60 + sec :
        d \in 0..MaxDays, h \in {0, 1, 23}, m \in {0, 1, 5, 59}, sec \in {0, 1, 5, 59}}

InitHms == InitCache

\* to_hms(duration), by both functions
ToHms(duration) ==
    /\ op' = [name |-> "to_hms", duration |-> duration,
              main |-> to_hms(duration), utils |-> utils_to_hms(duration)]
    /\ out' = <<>>
    /\ UNCHANGED <<now, get_time_cache, alerts, notifier, ticks, trigger_day>>
    /\ UNCHANGED dataVars
    /\ UNCHANGED threadVars
    /\ UNCHANGED obsVars

NextHms == \E duration \in Durations : ToHms(duration)

SpecHms == InitHms /\ [][NextHms]_vars

----------------------------------------------------------------------------
(* get_active_status called by the hourly and the new-day thread at once: *)
(* _cache_ttl statement by statement                                      *)

\* how far the clock may advance between two statements
RaceSteps == {1, 61}

\* the two daemon threads run their loops
InitRace ==
    /\ InitEnv
    /\ tracked = NoTime
    /\ tracked_yesterday = NoTime
    /\ afk_event \in {<<>>, <<[end |-> now, status |-> "not-afk"]>>}
    /\ alerts = <<>>
    /\ trigger_day = <<>>
    /\ pc = [t \in Threads |-> IF t = "main" THEN "none" ELSE "running"]
    /\ idx = 0
    /\ wake = [t \in Threads |-> Epoch]
    /\ last_day = LogicalDay(now)
    /\ seeded = <<>>
    /\ status_cache = EmptyCache
    /\ observers = <<>>
    /\ freezed = FALSE
    /\ status_seen = <<>>

\* thread t calls get_active_status(): the test of the expiry; when expired,
\* last_update[cache_key] = now and func is called (the thread waits for the
\* server); otherwise `return cache[cache_key]`, a KeyError without an entry
CallBegin(t) ==
    /\ pc[t] = "running"
    /\ IF Expired(status_cache, KeyNoArgs, now)
       THEN /\ status_cache' = [status_cache EXCEPT !.last_update[KeyNoArgs] = now]
            /\ pc' = [pc EXCEPT ![t] = "querying"]
            /\ op' = [name |-> "status_call", thread |-> t, ended |-> FALSE,
                      missing |-> FALSE, raised |-> FALSE, val |-> None]
       ELSE /\ status_cache' = status_cache
            /\ pc' = pc
            /\ op' = IF KeyNoArgs \in DOMAIN status_cache.cache
                     THEN [name |-> "status_call", thread |-> t, ended |-> TRUE,
                           missing |-> FALSE, raised |-> FALSE,
                           val |-> status_cache.cache[KeyNoArgs]]
                     ELSE [name |-> "status_call", thread |-> t, ended |-> TRUE,
                           missing |-> TRUE, raised |-> TRUE, val |-> None]
    /\ out' = <<>>
    /\ UNCHANGED <<now, get_time_cache, alerts, notifier, ticks, trigger_day, idx,
                   wake, last_day, seeded, status_seen, observers, freezed>>
    /\ UNCHANGED dataVars

\* the query of thread t ends: cache[cache_key] = func(); return cache[cache_key],
\* or the exception of func when ok is false
CallEnd(t, ok) ==
    /\ pc[t] = "querying"
    /\ pc' = [pc EXCEPT ![t] = "running"]
    /\ LET v == ActiveStatus(afk_event, now) IN
       IF ok
       THEN /\ status_cache' = [status_cache EXCEPT
                                   !.cache = DictPut(status_cache.cache, KeyNoArgs, v)]
            /\ UNCHANGED obsVars
            /\ status_seen' = <<[val |-> v, at |-> now]>>
            /\ op' = [name |-> "status_call", thread |-> t, ended |-> TRUE,
                      missing |-> FALSE, raised |-> FALSE, val |-> v]
       ELSE /\ UNCHANGED <<status_cache, status_seen, observers, freezed>>
            /\ op' = [name |-> "status_call", thread |-> t, ended |-> TRUE,
                      missing |-> FALSE, raised |-> TRUE, val |-> None]
    /\ out' = <<>>
    /\ UNCHANGED <<now, get_time_cache, alerts, notifier, ticks, trigger_day, idx,
                   wake, last_day, seeded>>
    /\ UNCHANGED dataVars

NextRace ==
    \/ \E d \in RaceSteps : Tick(d)
    \/ \E hb \in {"not-afk", "afk"} : Heartbeat(hb)
    \/ \E t \in Threads : CallBegin(t)
    \/ \E t \in Threads, ok \in BOOLEAN : CallEnd(t, ok)

SpecRace == InitRace /\ [][NextRace]_vars

----------------------------------------------------------------------------
(* notify() called by the three threads, statement by statement *)

\* the DesktopNotifier objects in the order of their construction
Instances == <<"DesktopNotifier", "DesktopNotifier2", "DesktopNotifier3">>

\* DesktopNotifier(...): a new object, the next after the ones constructed so
\* far; n is the global before the assignment
NewInstance(n) ==
    IF n = None THEN Instances[1]
    ELSE Instances[(CHOOSE k \in DOMAIN Instances : Instances[k] = n) + 1]

\* the threads run their loops; start() sent no check-in at startup (no time
\* was tracked), so nothing has called notify() yet
InitNotify ==
    /\ InitEnv
    /\ tracked = NoTime
    /\ tracked_yesterday = NoTime
    /\ afk_event = <<>>
    /\ alerts = <<>>
    /\ trigger_day = <<>>
    /\ pc = [t \in Threads |-> "running"]
    /\ idx = 0
    /\ wake = [t \in Threads |-> Epoch]
    /\ last_day = LogicalDay(now)
    /\ seeded = <<>>
    /\ status_cache = EmptyCache
    /\ observers = <<>>
    /\ freezed = FALSE
    /\ status_seen = <<>>

\* thread t calls notify(): `if notifier is None:`
NotifyTest(t) ==
    /\ pc[t] = "running"
    /\ ticks < MaxTicks
    /\ ticks' = ticks + 1
    /\ pc' = [pc EXCEPT ![t] = IF notifier = None THEN "construct" ELSE "send"]
    /\ out' = <<>>
    /\ op' = [name |-> "notify_test", thread |-> t]
    /\ UNCHANGED <<now, get_time_cache, alerts, notifier, trigger_day, idx, wake,
                   last_day, seeded, status_cache, status_seen, observers, freezed>>
    /\ UNCHANGED dataVars

\* thread t in notify(): `notifier = DesktopNotifier(...)`
NotifyConstruct(t) ==
    /\ pc[t] = "construct"
    /\ notifier' = NewInstance(notifier)
    /\ pc' = [pc EXCEPT ![t] = "send"]
    /\ out' = <<>>
    /\ op' = [name |-> "notify_construct", thread |-> t]
    /\ UNCHANGED <<now, get_time_cache, alerts, ticks, trigger_day, idx, wake,
                   last_day, seeded, status_cache, status_seen, observers, freezed>>
    /\ UNCHANGED dataVars

\* thread t in notify(): `notifier.send_sync(...)`, through the global as it is now
NotifySend(t) ==
    /\ pc[t] = "send"
    /\ pc' = [pc EXCEPT ![t] = "running"]
    /\ out' = <<[kind |-> "sent", thread |-> t, via |-> notifier]>>
    /\ op' = [name |-> "notify_send", thread |-> t]
    /\ UNCHANGED <<now, get_time_cache, alerts, notifier, ticks, trigger_day, idx,
                   wake, last_day, seeded, status_cache, status_seen, observers, freezed>>
    /\ UNCHANGED dataVars

NextNotify ==
    \/ \E t \in Threads : NotifyTest(t)
    \/ \E t \in Threads : NotifyConstruct(t)
    \/ \E t \in Threads : NotifySend(t)

SpecNotify == InitNotify /\ [][NextNotify]_vars

----------------------------------------------------------------------------
(* Properties of CategoryAlert, checked under SpecAlert *)

\* the thresholds of a that are above its max_triggered and reached by time_spent
DueThresholds(a) ==
    {th \in SeqToSet(a.thresholds) : th > a.max_triggered /\ th <= a.time_spent}

\* C1: one check() call triggers at most one threshold. If some untriggered
\* threshold is <= time_spent, max_triggered becomes the largest such threshold
\* and, unless silent, exactly one notify() call is made, for that threshold;
\* otherwise max_triggered is unchanged and notify() is not called.
C1_CheckTriggersLargest ==
    [][\A i \in DOMAIN alerts :
         (op'.name = "check" /\ op'.i = i) =>
            LET a == alerts[i] IN
            IF DueThresholds(a) # {}
            THEN /\ alerts'[i].max_triggered = MaxOf(DueThresholds(a))
                 /\ IF op'.silent
                    THEN out' = <<>>
                    ELSE /\ Len(out') = 1
                         /\ out'[1].kind = "threshold"
                         /\ out'[1].label = a.label
                         /\ out'[1].thres = MaxOf(DueThresholds(a))
            ELSE /\ alerts'[i].max_triggered = a.max_triggered
                 /\ out' = <<>>]_vars

\* C1 witness: thresholds [15m, 30m, 1h], time_spent jumped from 0 to 45m, and
\* check() has just made its one notify() call, for 30m.
C1_Witness ==
    /\ op.name = "check" /\ ~op.silent
    /\ alerts[1].thresholds = <<td15min, td30min, td1h>>
    /\ alerts[1].time_spent = 2700
    /\ Len(out) = 1 /\ out[1].thres = td30min
    /\ alerts[1].max_triggered = td30min

\* C2: once a threshold T is triggered (max_triggered >= T) no later check()
\* notifies for T or a lower threshold and max_triggered never decreases; a
\* check() directly following a check() of the same alert (time_spent
\* unchanged) makes no notify() call and leaves the alert unchanged.
C2_NoRefire ==
    [][\A i \in DOMAIN alerts :
         /\ alerts'[i].max_triggered >= alerts[i].max_triggered
         /\ \A k \in DOMAIN out' :
               (out'[k].kind = "threshold" /\ out'[k].label = alerts[i].label)
                  => out'[k].thres > alerts[i].max_triggered
         /\ (op.name = "check" /\ op'.name = "check" /\ op.i = i /\ op'.i = i)
               => (out' = <<>> /\ alerts'[i] = alerts[i])]_vars

\* C2 witness: a non-silent check() that found 15m and 30m already triggered
\* with time_spent at 45m, and made no notify() call.
C2_Witness ==
    /\ op.name = "check" /\ ~op.silent
    /\ out = <<>>
    /\ alerts[1].max_triggered = td30min
    /\ alerts[1].time_spent = 2700

\* C5: update() calls get_time exactly when now > last_check +
\* time_to_next_threshold, which is min(untriggered) - time_spent while
\* untriggered thresholds remain. When it does and get_time returns, time_spent
\* becomes the cache's value for the category (zero if absent) and last_check
\* becomes now; otherwise (not due, or get_time raised) both are unchanged.
\* update() never changes max_triggered or thresholds and never calls notify().
C5_UpdateRefresh ==
    [][\A i \in DOMAIN alerts :
         (op'.name = "update" /\ op'.i = i) =>
            LET a == alerts[i]
                b == alerts'[i]
                untriggered == {th \in SeqToSet(a.thresholds) : th > a.max_triggered}
                ttnt == IF untriggered # {}
                        THEN MinOf(untriggered) - a.time_spent
                        ELSE time_to_next_threshold(a, now)
                due == now > a.last_check + ttnt
            IN  /\ time_to_next_threshold(a, now) = ttnt
                /\ op'.called = due
                /\ IF due /\ ~op'.raised
                   THEN /\ b.time_spent =
                             DictGet(get_time_cache'.cache[KeyNoArgs], a.category, 0)
                        /\ b.last_check = now
                   ELSE /\ b.time_spent = a.time_spent
                        /\ b.last_check = a.last_check
                /\ b.max_triggered = a.max_triggered
                /\ b.thresholds = a.thresholds
                /\ out' = <<>>
                /\ notifier' = notifier]_vars

\* C5 witness: an update() that was due, was served from the cache without a
\* query, and stored a nonzero time_spent with last_check = now.
C5_Witness ==
    /\ op.name = "update" /\ op.called /\ ~op.queried /\ ~op.raised
    /\ alerts[1].last_check = now
    /\ alerts[1].time_spent > 0

\* time from t until the next instant whose time of day is 00:00 + time_offset
TimeToOffsetBoundary(t) ==
    IF t % Day < time_offset THEN time_offset - (t % Day)
                             ELSE Day - (t % Day) + time_offset

\* C6: with no untriggered threshold left, time_to_next_threshold is the time
\* until the next daily offset boundary plus the smallest threshold, hence
\* between 0 and 24 hours plus the smallest threshold.
C6_TimeToNextDay ==
    \A i \in DOMAIN alerts :
        thresholds_untriggered(alerts[i]) = <<>> =>
            LET smallest == MinOf(SeqToSet(alerts[i].thresholds))
                ttnt == time_to_next_threshold(alerts[i], now)
            IN  /\ ttnt = TimeToOffsetBoundary(now) + smallest
                /\ ttnt >= 0
                /\ ttnt <= Day + smallest

----------------------------------------------------------------------------
(* Properties of the TTL cache, checked under SpecCache *)

\* C7: a call made when now - last_refresh <= ttl for its key returns the
\* previously cached value without invoking the query; a call made when
\* now - last_refresh > ttl invokes the query once, stores its result and sets
\* last_refresh = now; and two calls of get_time for the same date within 60s
\* issue one query between them.
C7_TtlCache ==
    [][op'.name = "get_time" =>
         LET key == op'.key
             c == get_time_cache
             Fresh(k) == now - c.last_update[k] <= TTL
         IN  /\ Fresh(key) =>
                   /\ ~op'.queried
                   /\ ~op'.raised
                   /\ key \in DOMAIN c.cache
                   /\ op'.val = c.cache[key]
             /\ ~Fresh(key) =>
                   /\ op'.queried
                   /\ get_time_cache'.last_update[key] = now
                   /\ ~op'.raised => get_time_cache'.cache[key] = op'.val
             /\ (\E k \in {KeyNoArgs, KeyDateNone} : Fresh(k)) => ~op'.queried]_vars

----------------------------------------------------------------------------
(* Properties of the program, checked under Spec *)

\* the thread that runs the loop a step belongs to
LoopThread(name) ==
    IF name = "loop_alert" THEN "main"
    ELSE IF name = "hourly" THEN "hourly" ELSE "new_day"

LoopOps == {"loop_alert", "hourly", "new_day"}

\* C3: after the logical day has rolled over and time_spent has been refreshed
\* on the new day, a threshold triggered on an earlier day is untriggered again
\* unless the new day's time_spent has reached it: at the end of a pass of the
\* threshold loop no alert refreshed on a later logical day than that of its
\* last trigger has max_triggered above time_spent.
C3_RearmedEachDay ==
    pc["main"] = "sleep" =>
        \A i \in DOMAIN alerts :
            LogicalDay(alerts[i].last_check) > trigger_day[i]
                => alerts[i].max_triggered <= alerts[i].time_spent

\* the largest threshold <= t, or zero when there is none
LargestAtMost(thresholds, t) ==
    IF {th \in SeqToSet(thresholds) : th <= t} = {} THEN 0
    ELSE MaxOf({th \in SeqToSet(thresholds) : th <= t})

\* C4: the first pass of threshold_alerts makes no notify() call and leaves
\* max_triggered at the largest threshold <= the time the data source reports
\* at launch; no later step notifies for a threshold that the time spent at
\* launch had already reached.
C4_StartupSeeding ==
    [][/\ op'.name = "seed" =>
             /\ out' = <<>>
             /\ ~op'.error =>
                   LET b == alerts'[op'.i] IN
                   /\ b.time_spent = DictGet(CatTime(tracked), b.category, 0)
                   /\ b.max_triggered = LargestAtMost(b.thresholds, b.time_spent)
       /\ \A k \in DOMAIN out' : \A i \in DOMAIN seeded :
             (out'[k].kind = "threshold" /\ out'[k].label = alerts[i].label)
                => out'[k].thres > seeded[i]]_vars

\* C4 witness: 30 minutes of Twitter were already spent at launch, the first
\* pass set max_triggered to 30m, and a later pass of the loop has just checked
\* the alert again without notifying.
C4_Witness ==
    /\ op.name = "loop_alert" /\ op.i = 2 /\ ~op.error
    /\ ticks >= 1
    /\ Len(seeded) = NumAlerts /\ seeded[2] = td30min
    /\ alerts[2].max_triggered = td30min
    /\ out = <<>>

\* C8: an error raised by a collaborator during a cycle of the threshold loop,
\* the hourly check-in loop or the new-day loop does not end that loop.
C8_ErrorsContained ==
    [][(op'.name \in LoopOps /\ op'.error)
          => pc'[LoopThread(op'.name)] # "crashed"]_vars

\* C9: a failure in one of the three periodic tasks never stops another one.
C9_TaskIsolation ==
    [][(op'.name \in LoopOps /\ op'.error)
          => \A u \in Threads \ {LoopThread(op'.name)} : pc'[u] = pc[u]]_vars

\* C10: the hourly task calls notify() only in a cycle in which
\* get_active_status returned True; when it returned None or False, or raised,
\* nothing is sent, get_time is not called, and the task sleeps until the next
\* whole hour.
C10_CheckinOnlyWhenActive ==
    [][op'.name = "hourly" =>
          /\ out' # <<>> => op'.status = "True"
          /\ op'.status \in {None, "False", "raised"} =>
                /\ out' = <<>>
                /\ get_time_cache' = get_time_cache
                /\ pc'["hourly"] = "sleep"
                /\ wake'["hourly"] > now
                /\ wake'["hourly"] % Hour = 0
                /\ wake'["hourly"] - now <= Hour]_vars

\* C10 witness: the hourly task found the user active and sent its check-in.
C10_Witness ==
    /\ op.name = "hourly"
    /\ op.status = "True"
    /\ Len(out) = 1 /\ out[1].kind = "checkin" /\ out[1].title = "Time today"

\* C11: in the new-day task, when the logical day differs from last_day but
\* get_active_status returned None or False, last_day is unchanged, notify() is
\* not called and the task polls again after its sleep(60); last_day changes
\* only in a step of the task that calls notify("New day", ...), and then to
\* the logical day of that step, which is later than every day notified before:
\* at most one "New day" notification is sent per logical day.
C11_NewDayOnlyWhenActive ==
    [][/\ op'.name = "new_day" =>
             /\ (op'.differs /\ op'.status \in {None, "False"}) =>
                   /\ last_day' = last_day
                   /\ out' = <<>>
                   /\ pc'["new_day"] = "sleep"
                   /\ wake'["new_day"] = now + NewDaySleep
             /\ out' # <<>> =>
                   /\ Len(out') = 1 /\ out'[1].title = "New day"
                   /\ out'[1].day = LogicalDay(now)
                   /\ out'[1].day > last_day
                   /\ last_day' = out'[1].day \/ pc'["new_day"] = "crashed"
             /\ last_day' # last_day => out' # <<>>
       /\ op'.name \notin {"new_day", "start_threads"} =>
             /\ last_day' = last_day
             /\ \A k \in DOMAIN out' : out'[k].kind # "new_day"]_vars

\* C11 witness: the logical day has changed, the new-day task found the
\* activity status unknown, sent nothing and kept last_day.
C11_Witness ==
    /\ op.name = "new_day" /\ op.differs /\ op.status = None
    /\ out = <<>>
    /\ last_day < LogicalDay(now)
    /\ pc["new_day"] = "sleep" /\ wake["new_day"] = now + NewDaySleep

----------------------------------------------------------------------------
(* Properties of new_day_thread, checked under SpecNewDay *)

\* the instant from which the logical day differs from day d
DayEnd(d) == (d + 1) * Day + TIME_OFFSET

\* C12: the new-day task responds at the daily offset boundary. While it
\* sleeps, its next look at the day is due no later than its 60 s poll plus the
\* cache TTL after the instant the logical day comes to differ from last_day
\* (or after now, when it already differs), so that an active user is notified
\* within that interval of the day changing.
C12_WakesAtBoundary ==
    pc["new_day"] = "sleep" =>
        wake["new_day"] <= MaxOf({now, DayEnd(last_day)}) + NewDaySleep + TTL

----------------------------------------------------------------------------
(* Properties of get_active_status, checked under SpecStatus *)

\* the latest event of the afk bucket ended more than 5 minutes before t
TooOld(t) == afk_event[1].end < t - 5 * 60

\* the status the latest event of the afk bucket stands for at time t
StatusOfEvent(t) ==
    IF afk_event = <<>> \/ TooOld(t) THEN None
    ELSE IF afk_event[1].status = "not-afk" THEN "True" ELSE "False"

\* C13 as stated: every call of get_active_status that returns, answered from
\* the cache or not, returns None when there is no event or the latest event
\* ended more than 5 minutes before the call, and otherwise True exactly when
\* the event's status is "not-afk".
C13_StatusAtEveryCall ==
    [][(op'.name = "get_active_status" /\ ~op'.raised)
          => op'.val = StatusOfEvent(now)]_vars

\* C13 amended: a call that runs the query returns the status of the latest
\* event at the time of the call; a call answered from the cache returns what
\* the latest completed query returned.
C13_StatusAtQuery ==
    [][(op'.name = "get_active_status" /\ ~op'.raised) =>
          IF op'.queried
          THEN op'.val = StatusOfEvent(now)
          ELSE status_seen # <<>> /\ op'.val = status_seen[1].val]_vars

\* C13 witness: a call is answered True from the cache although by now the
\* event ended more than 5 minutes ago.
C13_Witness ==
    /\ op.name = "get_active_status" /\ ~op.raised /\ ~op.queried
    /\ op.val = "True"
    /\ afk_event # <<>> /\ TooOld(now)

----------------------------------------------------------------------------
(* Properties of get_time's window, checked under SpecCache *)

\* C14: a call of get_time without a date that runs the query asks for exactly
\* one period, 24 hours long, that starts at the daily offset past a midnight
\* and is the current logical day's: start <= now < start + 24h.
C14_WindowHoldsNow ==
    [][(op'.name = "get_time" /\ op'.queried) =>
          /\ Len(op'.timeperiods) = 1
          /\ LET w == op'.timeperiods[1] IN
             /\ w.end = w.start + 24 * Hour
             /\ w.start % Day = time_offset
             /\ w.start <= now /\ now < w.end]_vars

----------------------------------------------------------------------------
(* Properties of the notifier, checked under SpecNotify *)

\* C15: whatever the interleaving of the notify() calls of the three threads,
\* only one DesktopNotifier is ever constructed and every notification is sent
\* through it.
C15_OneNotifier ==
    /\ notifier \in {None, Instances[1]}
    /\ \A k \in DOMAIN out : out[k].kind = "sent" => out[k].via = Instances[1]

----------------------------------------------------------------------------
(* Properties of the TTL cache under concurrent calls, checked under SpecRace *)

\* C16: a call of a TTL-cached query made while another task's refresh of the
\* same key is in progress does not fail on a missing cache entry: it returns
\* the result of a completed query.
C16_ConcurrentCallsReturn ==
    [][(/\ op'.name = "status_call" /\ op'.ended
        /\ \E u \in Threads \ {op'.thread} : pc[u] = "querying")
          => (~op'.missing /\ (~op'.raised => status_seen' # <<>>))]_vars

----------------------------------------------------------------------------
(* Properties of to_hms, checked under SpecHms *)

NonZero(part) == part[1] > 0

\* days, hours, minutes and seconds of a duration, each with its suffix
Components(duration) ==
    << <<duration \div 86400, "d">>, <<(duration \div 3600) % 24, "h">>,
       <<(duration \div 60) % 60, "m">>, <<duration % 60, "s">> >>

----------------------------------------------------------------------------
(* Properties of parse_category_toml, checked under SpecToml *)

\* the entry a nested table at path contributes for itself
OwnEntry(items, path) ==
    IF HasKey(items, "$re") /\ ValueOf(items, "$re").t = "str"
    THEN RegexRule(path, ValueOf(items, "$re").s)
    ELSE NoRule(path)

\* the entries a table's items stand for: one per nested table, one per other
\* string-valued key
RECURSIVE ExpectedCats(_, _)
ExpectedCats(items, parent) ==
    UNION {LET it == items[i] IN
           IF it.val.t = "tab"
           THEN {OwnEntry(it.val.items, Append(parent, it.key))}
                \cup ExpectedCats(it.val.items, Append(parent, it.key))
           ELSE IF it.key = "$re" THEN {}
                ELSE {RegexRule(Append(parent, it.key), it.val.s)} : i \in DOMAIN items}

\* C18: parse_category_toml returns a list sorted by category path that holds
\* exactly one entry for the path of every nested table (the regex of its "$re"
\* key, or a rule of type "none") and one regex entry for every other
\* string-valued key; for the document of test_parse_category_toml the list
\* begins with ["Media"], ["Media", "Games"] with regex "Video Games" and
\* ["Media", "Games", "Steam"] with regex "Steam".
C18_FlattensEveryCategory ==
    op.name = "parse_category_toml" =>
        LET cats == op.res.cats IN
        /\ ~op.res.raised
        /\ \A i, j \in DOMAIN cats : i < j => PathLess(cats[i].path, cats[j].path)
        /\ \A e \in ExpectedCats(op.doc, <<>>) :
              /\ \E i \in DOMAIN cats : cats[i] = e
              /\ Cardinality({i \in DOMAIN cats : cats[i].path = e.path}) = 1
        /\ op.doc = TestDoc =>
              /\ cats[1].path = <<"Media">>
              /\ cats[2] = RegexRule(<<"Media", "Games">>, "Video Games")
              /\ cats[3] = RegexRule(<<"Media", "Games", "Steam">>, "Steam")

----------------------------------------------------------------------------
(* Properties of the adaptive polling, checked under SpecLive *)

\* after the startup pass, threshold T of alert i is untriggered and the data
\* source reports at least T for the alert's category
Crossed(i, T) ==
    /\ Len(seeded) = Len(alerts)
    /\ T > alerts[i].max_triggered
    /\ tracked[alerts[i].category] >= T

\* the run ends with the loop asleep before the alert's next refresh is due:
\* now is not past last_check + (smallest untriggered threshold - time_spent)
EndsBeforeDue(i) ==
    /\ ticks = MaxElapses
    /\ pc["main"] = "sleep" /\ now < wake["main"]
    /\ LET a == alerts[i]
           U == {th \in SeqToSet(a.thresholds) : th > a.max_triggered}
       IN  U # {} /\ now <= a.last_check + (MinOf(U) - a.time_spent)

----------------------------------------------------------------------------
(* Properties of a freshly constructed CategoryAlert, checked under SpecAlert *)

\* the alert is as its constructor left it
Fresh(a) == \E k \in DOMAIN ConfiguredAlerts : a = ConfiguredAlerts[k]

\* C20: update() on an alert that is still as constructed finds last_check at
\* the epoch and time_to_next_threshold equal to the smallest threshold, so it
\* always calls get_time; when that call returns, time_spent becomes the value
\* in the cache and last_check becomes now.
C20_FirstUpdateRefreshes ==
    [][\A i \in DOMAIN alerts :
         (op'.name = "update" /\ op'.i = i /\ Fresh(alerts[i])) =>
            LET a == alerts[i]
                b == alerts'[i]
            IN  /\ a.last_check = Epoch
                /\ time_to_next_threshold(a, now) = MinOf(SeqToSet(a.thresholds))
                /\ op'.called
                /\ ~op'.raised =>
                      /\ b.time_spent =
                            DictGet(get_time_cache'.cache[KeyNoArgs], a.category, 0)
                      /\ b.last_check = now
                      /\ ~Fresh(b)]_vars

\* C20 witness: the first update() of an alert, made before any time has
\* passed, ran the query and stored a non-zero time and now.
C20_Witness ==
    /\ op.name = "update" /\ op.called /\ op.queried /\ ~op.raised
    /\ ticks = 0
    /\ alerts[op.i].last_check = now
    /\ alerts[op.i].time_spent > 0 /\ alerts[op.i].max_triggered = 0

----------------------------------------------------------------------------
(* Properties of a failing query behind the TTL cache, checked under SpecCache *)

\* C21: when the query behind a cached call raises, the error reaches the
\* caller and the cache entry of that key, stored value and last-refresh
\* timestamp, is unchanged; the call that follows a failed one for the same
\* key runs the query again, and no call fails on a missing entry.
C21_FailureLeavesEntry ==
    [][op'.name = "get_time" =>
         LET key == op'.key IN
         /\ (op'.queried /\ op'.raised) =>
               /\ get_time_cache'.last_update[key] = get_time_cache.last_update[key]
               /\ get_time_cache'.cache = get_time_cache.cache
         /\ (op.name = "get_time" /\ op.key = key /\ op.queried /\ op.raised) =>
               op'.queried
         /\ op'.raised => op'.queried]_vars

----------------------------------------------------------------------------
(* DesktopObservable and ThresholdObserver (observable.py, observer.py) *)

\* how many ThresholdObserver objects are subscribed at most
MaxObservers == 3

\* the durations observers are constructed with
ObserverDurations == {td15min, td30min, td1h}

\* the times alert() is called with
AlertTimes == {600, 1000, 2000, 4000}

\* ThresholdObserver(observable, duration): the class attribute triggered is
\* None, written <<>>, and a trigger time t is <<t>>; sent counts the
\* notifications the observer has sent
ThresholdObserver(duration) ==
    [duration |-> duration, triggered |-> <<>>, sent |-> 0]

\* obs.trigger()
trigger(obs, t) ==
    IF obs.triggered = <<>> THEN [obs EXCEPT !.triggered = <<t>>] ELSE obs

\* obs.notify(*args): the method takes one argument besides self, so a call
\* with another number of arguments raises TypeError before its body runs
ThresholdObserver_notify(obs, nargs) ==
    IF nargs = 1
    THEN [raised |-> FALSE, obs |-> [obs EXCEPT !.sent = @ + 1]]
    ELSE [raised |-> TRUE, obs |-> obs]

\* position k comes before position j in
\* sorted(obs, reverse=True, key=lambda x: x.duration), which is stable
SortsBefore(obs, k, j) ==
    \/ obs[k].duration > obs[j].duration
    \/ obs[k].duration = obs[j].duration /\ k < j

\* alert(time): the first observer in sorted order that is triggered or whose
\* duration time exceeds ends the loop; 0 when the loop runs to its end
LoopEndsAt(obs, time) ==
    LET Stops == {k \in DOMAIN obs :
                     obs[k].triggered # <<>> \/ time > obs[k].duration}
    IN  IF Stops = {} THEN 0
        ELSE CHOOSE k \in Stops : \A j \in Stops \ {k} : SortsBefore(obs, k, j)

\* DesktopObservable.alert(time)
alert(obs, time, t) ==
    LET k == LoopEndsAt(obs, time) IN
    IF k = 0 \/ obs[k].triggered # <<>>
    THEN [obs |-> obs, raised |-> FALSE, notified |-> 0]
    ELSE LET n == ThresholdObserver_notify(obs[k], 0) IN
         IF n.raised
         THEN [obs |-> obs, raised |-> TRUE, notified |-> 0]
         ELSE [obs |-> [obs EXCEPT ![k] = trigger(n.obs, t)],
               raised |-> FALSE, notified |-> k]

\* the first position of an element in a list, as list.remove finds it
RemoveAt(seq, k) == SubSeq(seq, 1, k - 1) \o SubSeq(seq, k + 1, Len(seq))

ObsFrame ==
    /\ out' = <<>>
    /\ UNCHANGED <<now, get_time_cache, alerts, notifier, ticks, trigger_day>>
    /\ UNCHANGED dataVars
    /\ UNCHANGED threadVars

\* DesktopObservable() has just been constructed
InitObs == InitCache

\* ThresholdObserver(observable, duration), whose __init__ calls subscribe(self)
Subscribe(duration) ==
    /\ Len(observers) < MaxObservers
    /\ observers' = IF ~freezed
                    THEN Append(observers, ThresholdObserver(duration))
                    ELSE observers
    /\ op' = [name |-> "subscribe", duration |-> duration]
    /\ UNCHANGED freezed
    /\ ObsFrame

\* observable.freeze()
Freeze ==
    /\ freezed' = TRUE
    /\ op' = [name |-> "freeze"]
    /\ UNCHANGED observers
    /\ ObsFrame

\* observable.unsubscribe(observers[k])
Unsubscribe(k) ==
    /\ k \in DOMAIN observers
    /\ observers' = IF ~freezed THEN RemoveAt(observers, k) ELSE observers
    /\ op' = [name |-> "unsubscribe", k |-> k]
    /\ UNCHANGED freezed
    /\ ObsFrame

\* observers[k].trigger() called directly
Trigger(k) ==
    /\ k \in DOMAIN observers
    /\ observers' = [observers EXCEPT ![k] = trigger(observers[k], now)]
    /\ op' = [name |-> "trigger", k |-> k]
    /\ UNCHANGED freezed
    /\ ObsFrame

\* observable.alert(time)
Alert(time) ==
    LET r == alert(observers, time, now) IN
    /\ observers' = r.obs
    /\ op' = [name |-> "alert", time |-> time, raised |-> r.raised,
              notified |-> r.notified]
    /\ UNCHANGED freezed
    /\ ObsFrame

NextObs ==
    \/ \E d \in ObserverDurations : Subscribe(d)
    \/ Freeze
    \/ \E k \in 1..MaxObservers : Unsubscribe(k)
    \/ \E k \in 1..MaxObservers : Trigger(k)
    \/ \E time \in AlertTimes : Alert(time)

SpecObs == InitObs /\ [][NextObs]_vars

----------------------------------------------------------------------------
(* Properties of DesktopObservable, checked under SpecObs *)

\* the observers alert(time) may notify: untriggered, exceeded by time, no
\* other observer of a larger duration exceeded, and no triggered observer of
\* a larger duration
MayNotify(obs, time) ==
    {k \in DOMAIN obs :
        /\ obs[k].triggered = <<>>
        /\ time > obs[k].duration
        /\ \A j \in DOMAIN obs :
              /\ time > obs[j].duration => obs[j].duration <= obs[k].duration
              /\ obs[j].triggered # <<>> => obs[j].duration <= obs[k].duration}

\* those of them alert(time) has to notify one of: no triggered observer has
\* the same duration either
ToNotify(obs, time) ==
    {k \in MayNotify(obs, time) :
        \A j \in DOMAIN obs :
            obs[j].triggered # <<>> => obs[j].duration < obs[k].duration}

\* C22: in a call of alert(time) at most one observer is notified, it is
\* untriggered before the call, of the largest duration time exceeds, not below
\* any triggered observer, and marked triggered by the call; when such an
\* observer exists above every triggered one, one is notified; no other
\* observer changes. After freeze(),
\* subscribe() and unsubscribe() leave the observers unchanged.
C22_AlertLargestOnce ==
    [][/\ op'.name = "alert" =>
            LET time == op'.time
                Notified == {k \in DOMAIN observers :
                                observers'[k].sent > observers[k].sent}
            IN  /\ Len(observers') = Len(observers)
                /\ Cardinality(Notified) <= 1
                /\ Notified \subseteq MayNotify(observers, time)
                /\ ToNotify(observers, time) # {} => Notified # {}
                /\ \A k \in DOMAIN observers :
                      IF k \in Notified
                      THEN /\ observers'[k].sent = observers[k].sent + 1
                           /\ observers'[k].triggered # <<>>
                      ELSE observers'[k] = observers[k]
       /\ (op'.name \in {"subscribe", "unsubscribe"} /\ freezed) =>
            observers' = observers]_vars

====
